---- MODULE Spec2Model ----
(***************************************************************************)
(* A model of cookbook/slackbot/tools.py: the two documentation search     *)
(* tools with their process-wide credential slot, the release-notes        *)
(* fetcher behind the get_info dispatcher, and the code-example retriever. *)
(*                                                                         *)
(* Every coroutine is cut at its awaits: one action runs the code from one *)
(* suspension point to the next, as the event loop does.                   *)
(***************************************************************************)
EXTENDS Naturals, Sequences, FiniteSets, TLC

VARIABLES
    api_key,        \* tpuf.api_key, the process-wide credential slot
    secret,         \* the value stored in the Secret block "tpuf-api-key"
    loads,          \* how many times Secret.load("tpuf-api-key") was called
    calls,          \* the search calls of this process, by call id
    backend,        \* what the (deterministic) backend has answered so far
    info,           \* one call of get_info or of get_latest_release_notes
    ex              \* one call of get_prefect_code_example

search_vars == <<api_key, secret, loads, calls, backend>>

vars == <<search_vars, info, ex>>

----------------------------------------------------------------------------
(* Python values *)

\* Python's None, kept apart from every string the program handles.
PyNone == "<None>"

\* bool(v) for v a str or None: None and the empty string are falsy.
Truthy(v) == v # PyNone /\ v # ""

----------------------------------------------------------------------------
(* Bounds and input sets *)

\* Concurrent search calls in the process.
MaxCalls == 2

\* The non-empty query lists the tools are called with (the docstring's own
\* examples, in both orders).
QueryLists ==
    { <<"retrieve task run id from flow run">>,
      <<"retrieve task run id from flow run", "retrieve run metadata dynamically">>,
      <<"retrieve run metadata dynamically", "retrieve task run id from flow run">> }

\* What the Secret block may hold.
Credentials == {"", "tpuf-secret"}

\* What the backend may answer.
Texts == {"excerpt A", "excerpt B"}

CallIds == 1..MaxCalls

\* How many pieces a release-notes body is put together from.
MaxPieces == 5

\* The delimiter of line 59, "\n## ", as characters.
Delim == <<"\n", "#", "#", " ">>

\* A body is a run of pieces: the delimiter, or any one character (so every
\* string of up to MaxPieces characters, the near-misses of the delimiter among
\* them, and longer ones holding whole delimiters).
Pieces == {Delim, <<"\n">>, <<"#">>, <<" ">>, <<"v">>}

RECURSIVE BodiesUpTo(_)
BodiesUpTo(n) ==
    IF n = 0 THEN {<<>>}
    ELSE LET shorter == BodiesUpTo(n - 1)
         IN  shorter \cup {p \o b : p \in Pieces, b \in shorter}

Bodies == BodiesUpTo(MaxPieces)

\* The topics get_info is called with.
Topics == {"latest_prefect_version", "latest_prefect_release", ""}

\* The errors that awaiting the HTTP GET may raise inside a handler.
AwaitErrors == {"ConnectError", "KeyError"}

\* Categories in a manifest.
MaxCategories == 2

\* Example entries in a manifest, over all its categories.
MaxExamples == 2

Descriptions == {"retry a flow", "deploy a flow"}

RelativePaths == {"examples/retry.py", "examples/deploy.py"}

\* What the classifier may answer besides the labels it was given.
StrayLabels == {"schedule a flow"}

\* What the GET of an example file may answer.
Contents == {"@flow(retries=3)", "404: Not Found"}

\* The question put to the retriever.
Questions == {"how do I retry a failed flow"}

----------------------------------------------------------------------------
(* Errors *)

NoError == [kind |-> "", msg |-> ""]

Error(kind) == [kind |-> kind, msg |-> ""]

----------------------------------------------------------------------------
(* get_latest_release_notes and get_info *)

\* The first index >= i at which sep occurs in s, or 0.
RECURSIVE Find(_, _, _)
Find(s, sep, i) ==
    IF i + Len(sep) - 1 > Len(s) THEN 0
    ELSE IF SubSeq(s, i, i + Len(sep) - 1) = sep THEN i
    ELSE Find(s, sep, i + 1)

\* str.split(sep): the pieces of s between the occurrences of sep, found left
\* to right, the separators dropped; <<s>> when sep does not occur.
RECURSIVE str_split(_, _)
str_split(s, sep) ==
    LET i == Find(s, sep, 1)
    IN  IF i = 0 THEN <<s>>
        ELSE <<SubSeq(s, 1, i - 1)>> \o
             str_split(SubSeq(s, i + Len(sep), Len(s)), sep)

\* Mutant: the element before the first delimiter.
Subscript1_Zero(parts) == [err |-> NoError, value |-> parts[1]]

\* Mutant: a missing element read as empty text.
Subscript1_Lenient(parts) ==
    [err |-> NoError, value |-> IF Len(parts) >= 2 THEN parts[2] ELSE <<>>]

\* `parts[1]` of a Python list (0-based): its second element, or IndexError.
Subscript1(parts) ==
    IF Len(parts) >= 2
    THEN [err |-> NoError, value |-> parts[2]]
    ELSE [err |-> Error("IndexError"), value |-> <<>>]

\* `response.text.split("\n## ")[1]`
FirstSection(text) == Subscript1(str_split(text, Delim))

\* tool_map: topic -> handler.
tool_map == [t \in {"latest_prefect_version"} |-> "get_latest_release_notes"]

\* Mutant: the message without the topic.
InvalidTopic_NoValue(topic) == [kind |-> "ValueError", msg |-> "Invalid topic"]

\* `raise ValueError(f"Invalid topic: {topic}")`
InvalidTopic(topic) == [kind |-> "ValueError", msg |-> "Invalid topic: " \o topic]

\* What get_info's try/except makes of an error raised anywhere in its try
\* block, the lookup, the handler call and the await alike: `except KeyError`
\* turns a KeyError into the ValueError; anything else passes.
ThroughGetInfo(e, topic) ==
    IF e.kind = "KeyError" THEN InvalidTopic(topic) ELSE e

\* What leaves the entered function for an error e raised in the handler.
Surfacing(e) ==
    IF info.entry = "get_info" THEN ThroughGetInfo(e, info.topic) ELSE e

IdleInfo ==
    [pc |-> "idle", entry |-> "", topic |-> "", handler_runs |-> 0,
     got |-> FALSE, text |-> <<>>, raised |-> NoError,
     out |-> <<>>, err |-> NoError]

\* get_info(topic) up to its first suspension. tool_map[topic] raises KeyError
\* for an unknown topic. The one registered handler is a coroutine function, so
\* calling it yields a coroutine, line 77's test is true, and the await runs it
\* to its `await client.get(...)`.
get_info(topic) ==
    /\ info.pc = "idle"
    /\ IF topic \in DOMAIN tool_map
       THEN info' = [info EXCEPT !.pc = "fetching", !.entry = "get_info",
                                 !.topic = topic,
                                 !.handler_runs = info.handler_runs + 1]
       ELSE info' = [info EXCEPT !.pc = "raised", !.entry = "get_info",
                                 !.topic = topic,
                                 !.raised = Error("KeyError"),
                                 !.err = ThroughGetInfo(Error("KeyError"), topic)]
    /\ UNCHANGED <<search_vars, ex>>

\* get_latest_release_notes() called on its own, up to `await client.get(...)`.
get_latest_release_notes ==
    /\ info.pc = "idle"
    /\ info' = [info EXCEPT !.pc = "fetching",
                            !.entry = "get_latest_release_notes",
                            !.handler_runs = info.handler_runs + 1]
    /\ UNCHANGED <<search_vars, ex>>

\* The GET answers with some text: line 59 returns its first section or raises
\* IndexError, and the value or the error leaves the entered function.
ReleaseNotesFetched ==
    /\ info.pc = "fetching"
    /\ \E text \in Bodies :
          LET r == FirstSection(text)
          IN  info' = IF r.err = NoError
                      THEN [info EXCEPT !.pc = "returned", !.got = TRUE,
                                        !.text = text, !.out = r.value]
                      ELSE [info EXCEPT !.pc = "raised", !.got = TRUE,
                                        !.text = text, !.raised = r.err,
                                        !.err = Surfacing(r.err)]
    /\ UNCHANGED <<search_vars, ex>>

\* The GET raises: the error leaves the handler and then the entered function.
ReleaseNotesGetFailed(kind) ==
    /\ info.pc = "fetching"
    /\ info' = [info EXCEPT !.pc = "raised", !.raised = Error(kind),
                            !.err = Surfacing(Error(kind))]
    /\ UNCHANGED <<search_vars, ex>>

----------------------------------------------------------------------------
(* JSON objects and dicts *)

\* A JSON object is a function on the keys it holds; <<>> holds none.
\* dict.get(key, default)
Get(obj, key, default) == IF key \in DOMAIN obj THEN obj[key] ELSE default

\* The example entries a manifest may hold: each of "description" and
\* "relative_path" present or absent.
Items ==
    {[k \in {x \in {"description"} : d # PyNone} \cup
             {x \in {"relative_path"} : p # PyNone} |->
         IF k = "description" THEN d ELSE p] :
     d \in Descriptions \cup {PyNone}, p \in RelativePaths \cup {PyNone}}

\* The shape of a category: whether it has an "examples" key, and how many
\* entries the list under it holds.
CategoryShapes ==
    {[has |-> FALSE, n |-> 0]} \cup {[has |-> TRUE, n |-> m] : m \in 0..MaxExamples}

RECURSIVE Total(_)
Total(shape) == IF shape = <<>> THEN 0 ELSE Head(shape).n + Total(Tail(shape))

\* The shapes of a "categories" list: at most MaxCategories categories holding
\* at most MaxExamples entries altogether.
Shapes ==
    {shape \in UNION {[1..k -> CategoryShapes] : k \in 0..MaxCategories} :
        Total(shape) <= MaxExamples}

\* The "categories" list of a shape, its entries taken in order from `entries`.
RECURSIVE Categories(_, _)
Categories(shape, entries) ==
    IF shape = <<>> THEN <<>>
    ELSE LET h == Head(shape)
         IN  <<IF h.has THEN [examples |-> SubSeq(entries, 1, h.n)] ELSE <<>>>>
             \o Categories(Tail(shape), SubSeq(entries, h.n + 1, Len(entries)))

\* A dict is the sequence of its <<key, value>> pairs in insertion order.
DictKeys(d) == [i \in 1..Len(d) |-> d[i][1]]

HasKey(d, key) == \E i \in 1..Len(d) : d[i][1] = key

\* Mutant: an existing key keeps its first value.
DictSet_KeepFirst(d, key, value) ==
    IF HasKey(d, key) THEN d ELSE Append(d, <<key, value>>)

\* d[key] = value: a new key goes last, an existing key keeps its place and
\* takes the new value.
DictSet(d, key, value) ==
    IF HasKey(d, key)
    THEN [i \in 1..Len(d) |-> IF d[i][1] = key THEN <<key, value>> ELSE d[i]]
    ELSE Append(d, <<key, value>>)

\* Mutant: a missing key read as None.
DictGetItem_Lenient(d, key) ==
    IF HasKey(d, key)
    THEN [err |-> NoError,
          value |-> d[CHOOSE i \in 1..Len(d) : d[i][1] = key][2]]
    ELSE [err |-> NoError, value |-> PyNone]

\* d[key]: the value, or KeyError.
DictGetItem(d, key) ==
    IF HasKey(d, key)
    THEN [err |-> NoError,
          value |-> d[CHOOSE i \in 1..Len(d) : d[i][1] = key][2]]
    ELSE [err |-> Error("KeyError"), value |-> PyNone]

\* What an f-string makes of a str or None.
Str(v) == IF v = PyNone THEN "None" ELSE v

----------------------------------------------------------------------------
(* get_prefect_code_example *)

base_url == "https://raw.githubusercontent.com/zzstoatzz/prefect-code-examples/main"

manifest_url == base_url \o "/views/README.json"

\* The entries the comprehension of lines 92-96 visits, in its order:
\* categories in order, each one's examples in order.
RECURSIVE ItemStream(_)
ItemStream(categories) ==
    IF categories = <<>> THEN <<>>
    ELSE Get(Head(categories), "examples", <<>>) \o ItemStream(Tail(categories))

\* The dict the comprehension builds from the entries, one assignment each.
RECURSIVE Collect(_, _)
Collect(d, items) ==
    IF items = <<>> THEN d
    ELSE Collect(DictSet(d, Get(Head(items), "description", PyNone),
                            Get(Head(items), "relative_path", PyNone)),
                 Tail(items))

\* example_items of lines 92-96.
ExampleItems(manifest) ==
    Collect(<<>>, ItemStream(Get(manifest, "categories", <<>>)))

\* f"{base_url}/{example_items[key]}"
BestLink(value) == base_url \o "/" \o Str(value)

\* The returned text of line 106.
Formatted(best_link, content) ==
    "LINK:\n" \o best_link \o "\n\n EXAMPLE:\n" \o content

IdleExample ==
    [pc |-> "idle", related_to |-> "", got |-> FALSE, manifest |-> <<>>,
     example_items |-> <<>>, asked |-> <<>>, answered |-> FALSE,
     key |-> PyNone,
     best_link |-> "", trace |-> <<>>, out |-> PyNone, err |-> NoError]

\* The call, up to the await of the manifest GET.
get_prefect_code_example(related_to) ==
    /\ ex.pc = "idle"
    /\ ex' = [ex EXCEPT !.pc = "manifest", !.related_to = related_to,
                        !.trace = <<"GET " \o manifest_url>>]
    /\ UNCHANGED <<search_vars, info>>

\* The manifest arrives: lines 92-96 flatten it, lines 98-100 call the
\* classifier with the question and the dict's keys.
Flattened(manifest) ==
    LET items == ExampleItems(manifest)
    IN  ex' = [ex EXCEPT !.pc = "classify", !.got = TRUE,
                        !.manifest = manifest,
                        !.example_items = items,
                        !.asked = <<[data |-> ex.related_to,
                                     labels |-> DictKeys(items)]>>,
                        !.trace = Append(ex.trace, "classify")]

\* The manifest GET answers with a JSON object: one with no "categories" key,
\* or one with a "categories" list of any shape and any entries.
ManifestFetched ==
    /\ ex.pc = "manifest"
    /\ \/ Flattened(<<>>)
       \/ \E shape \in Shapes : \E entries \in [1..Total(shape) -> Items] :
             Flattened([categories |-> Categories(shape, entries)])
    /\ UNCHANGED <<search_vars, info>>

\* The manifest GET raises.
ManifestFailed ==
    /\ ex.pc = "manifest"
    /\ ex' = [ex EXCEPT !.pc = "raised", !.err = Error("ConnectError")]
    /\ UNCHANGED <<search_vars, info>>

\* The labels the classifier may answer with: any it was given, or a stray one.
Answers ==
    UNION {{ex.asked[a].labels[i] : i \in 1..Len(ex.asked[a].labels)}
               \cup StrayLabels : a \in 1..Len(ex.asked)}

\* The classifier answers with a label: line 102 looks it up, raising KeyError
\* when it is no key, and line 104 requests the file.
Classified ==
    /\ ex.pc = "classify"
    /\ \E label \in Answers :
          LET r == DictGetItem(ex.example_items, label)
          IN  ex' = IF r.err = NoError
                    THEN [ex EXCEPT !.pc = "example", !.answered = TRUE,
                                    !.key = label,
                                    !.best_link = BestLink(r.value),
                                    !.trace = Append(ex.trace,
                                                  "GET " \o BestLink(r.value))]
                    ELSE [ex EXCEPT !.pc = "raised", !.answered = TRUE,
                                    !.key = label, !.err = r.err]
    /\ UNCHANGED <<search_vars, info>>

\* The classifier raises.
ClassifyFailed ==
    /\ ex.pc = "classify"
    /\ ex' = [ex EXCEPT !.pc = "raised", !.err = Error("ClassifierError")]
    /\ UNCHANGED <<search_vars, info>>

\* The example file arrives: line 106 returns the formatted text.
ExampleFetched(content) ==
    /\ ex.pc = "example"
    /\ ex' = [ex EXCEPT !.pc = "returned",
                        !.out = Formatted(ex.best_link, content)]
    /\ UNCHANGED <<search_vars, info>>

\* The example GET raises.
ExampleFailed ==
    /\ ex.pc = "example"
    /\ ex' = [ex EXCEPT !.pc = "raised", !.err = Error("ConnectError")]
    /\ UNCHANGED <<search_vars, info>>

----------------------------------------------------------------------------
(* search_prefect_2x_docs / search_prefect_3x_docs *)

IdleCall ==
    [pc |-> "idle", fn |-> "", queries |-> <<>>, namespace |-> "",
     saw_key |-> PyNone, loaded |-> 0, sent |-> <<>>, out |-> PyNone,
     err |-> PyNone, after |-> {}]

\* The calls that have returned a value.
Returned == {c \in CallIds : calls[c].pc = "returned"}

\* Mutant: the slot is never consulted.
NeedsKey_Always(k) == TRUE

\* `if not tpuf.api_key:` with the slot holding k.
NeedsKey(k) == ~Truthy(k)

\* `multi_query_tpuf(queries, namespace=...)`: the one invocation a tool makes,
\* as the backend sees it.
BackendCall(queries, namespace) ==
    <<[queries |-> queries, namespace |-> namespace]>>

\* The body of a search tool up to its first await: test the slot, then either
\* call Secret.load (suspending in it) or call multi_query_tpuf (suspending in it).
\* Call ids are handed out in order, which leaves out only renamings of calls.
SearchBody(c, fn, queries, namespace) ==
    /\ calls[c].pc = "idle"
    /\ \A d \in CallIds : d < c => calls[d].pc # "idle"
    /\ LET rec == [IdleCall EXCEPT !.fn = fn, !.queries = queries,
                                   !.namespace = namespace,
                                   !.saw_key = api_key, !.after = Returned]
       IN  IF NeedsKey(api_key)
           THEN /\ loads' = loads + 1
                /\ calls' = [calls EXCEPT ![c] =
                                [rec EXCEPT !.pc = "loading", !.loaded = 1]]
           ELSE /\ calls' = [calls EXCEPT ![c] =
                                [rec EXCEPT !.pc = "querying",
                                            !.sent = BackendCall(queries, namespace)]]
                /\ UNCHANGED loads
    /\ UNCHANGED <<api_key, secret, backend, info, ex>>

search_prefect_2x_docs(c, queries) ==
    /\ c \in CallIds
    /\ SearchBody(c, "search_prefect_2x_docs", queries, "prefect-2")

\* Mutant: the 3.x tool left searching the 2.x corpus.
search_prefect_3x_docs_WrongCorpus(c, queries) ==
    /\ c \in CallIds
    /\ SearchBody(c, "search_prefect_3x_docs", queries, "prefect-2")

search_prefect_3x_docs(c, queries) ==
    /\ c \in CallIds
    /\ SearchBody(c, "search_prefect_3x_docs", queries, "prefect-3")

\* Mutant: the loaded credential is not kept in the slot.
LoadedKey_NotKept(block_value) == PyNone

\* `(await Secret.load("tpuf-api-key")).get()`: the value the block holds.
LoadedKey(block_value) == block_value

\* Secret.load(...) completes: `tpuf.api_key = (...).get()`, then the call to
\* multi_query_tpuf with the call's own queries and namespace.
SecretLoaded(c) ==
    /\ calls[c].pc = "loading"
    /\ api_key' = LoadedKey(secret)
    /\ calls' = [calls EXCEPT ![c].pc = "querying",
                              ![c].sent = calls[c].sent \o
                                  BackendCall(calls[c].queries, calls[c].namespace)]
    /\ UNCHANGED <<secret, loads, backend, info, ex>>

\* Secret.load(...) raises: the error leaves the tool, the slot stays as it was.
SecretFailed(c) ==
    /\ calls[c].pc = "loading"
    /\ calls' = [calls EXCEPT ![c].pc = "raised", ![c].err = "SecretError"]
    /\ UNCHANGED <<api_key, secret, loads, backend, info, ex>>

\* The arguments the backend has answered already.
Answered == {<<e.queries, e.namespace>> : e \in backend}

\* The answer of the deterministic backend to (queries, namespace): the one it
\* gave before, or a fresh one it will repeat from now on.
BackendAnswers(queries, namespace) ==
    IF <<queries, namespace>> \in Answered
    THEN {e.out : e \in {x \in backend :
                            x.queries = queries /\ x.namespace = namespace}}
    ELSE Texts

\* `return await multi_query_tpuf(...)`: what the tool returns for the backend's
\* output.
SearchResult(out) == out

\* multi_query_tpuf completes with its text, which the tool returns.
BackendReturned(c) ==
    /\ calls[c].pc = "querying"
    /\ \E out \in BackendAnswers(calls[c].queries, calls[c].namespace) :
          /\ backend' = backend \cup
                 {[queries |-> calls[c].queries,
                   namespace |-> calls[c].namespace, out |-> out]}
          /\ calls' = [calls EXCEPT ![c].pc = "returned",
                                    ![c].out = SearchResult(out)]
    /\ UNCHANGED <<api_key, secret, loads, info, ex>>

\* multi_query_tpuf raises: the error leaves the tool; nothing is retried.
BackendFailed(c) ==
    /\ calls[c].pc = "querying"
    /\ calls' = [calls EXCEPT ![c].pc = "raised", ![c].err = "BackendError"]
    /\ UNCHANGED <<api_key, secret, loads, backend, info, ex>>

SearchInit ==
    /\ api_key = PyNone
    /\ secret \in Credentials
    /\ loads = 0
    /\ calls = [c \in CallIds |-> IdleCall]
    /\ backend = {}
    /\ info = IdleInfo
    /\ ex = IdleExample

SearchNext ==
    \/ \E c \in CallIds, q \in QueryLists : search_prefect_2x_docs(c, q)
    \/ \E c \in CallIds, q \in QueryLists : search_prefect_3x_docs(c, q)
    \/ \E c \in CallIds : SecretLoaded(c)
    \/ \E c \in CallIds : SecretFailed(c)
    \/ \E c \in CallIds : BackendReturned(c)
    \/ \E c \in CallIds : BackendFailed(c)

SpecSearch == SearchInit /\ [][SearchNext]_vars

InfoInit ==
    /\ info = IdleInfo
    /\ ex = IdleExample
    /\ api_key = PyNone
    /\ secret = ""
    /\ loads = 0
    /\ calls = [c \in CallIds |-> IdleCall]
    /\ backend = {}

InfoNext ==
    \/ \E t \in Topics : get_info(t)
    \/ get_latest_release_notes
    \/ ReleaseNotesFetched
    \/ \E k \in AwaitErrors : ReleaseNotesGetFailed(k)

SpecInfo == InfoInit /\ [][InfoNext]_vars

ExampleInit == InfoInit

ExampleNext ==
    \/ \E q \in Questions : get_prefect_code_example(q)
    \/ ManifestFetched
    \/ ManifestFailed
    \/ Classified
    \/ ClassifyFailed
    \/ \E c \in Contents : ExampleFetched(c)
    \/ ExampleFailed

SpecExample == ExampleInit /\ [][ExampleNext]_vars

----------------------------------------------------------------------------
(* Claims about get_info and get_latest_release_notes, checked under SpecInfo *)

\* Where the delimiter occurs in a body. It cannot overlap itself: its only
\* newline is its first character.
Occurrences(text) ==
    {i \in 1..Len(text) : i + 3 <= Len(text) /\ SubSeq(text, i, i + 3) = Delim}

Least(S) == CHOOSE i \in S : \A j \in S : i <= j

FirstOcc(text) == Least(Occurrences(text))

SecondOcc(text) == Least(Occurrences(text) \ {FirstOcc(text)})

\* The text lying between the first and the second occurrence of the delimiter.
BetweenFirstAndSecond(text) ==
    SubSeq(text, FirstOcc(text) + 4, SecondOcc(text) - 1)

\* The text after the first occurrence, up to the second one or, when there is
\* no second one, up to the end of the body.
AfterFirstUpToNext(text) ==
    IF Cardinality(Occurrences(text)) >= 2
    THEN BetweenFirstAndSecond(text)
    ELSE SubSeq(text, FirstOcc(text) + 4, Len(text))

ViaGetInfo == info.entry = "get_info" /\ info.pc # "idle"

\* C1: for a topic that is no key of tool_map, get_info fails with the
\* ValueError whose message holds the topic, and no handler is invoked.
C1_UnknownTopicRejected ==
    (ViaGetInfo /\ info.topic \notin DOMAIN tool_map) =>
        /\ info.pc = "raised"
        /\ info.err.kind = "ValueError"
        /\ info.err.msg = "Invalid topic: " \o info.topic
        /\ info.handler_runs = 0

\* get_info was called with a non-empty topic that is not registered.
C1_Witness ==
    /\ ViaGetInfo
    /\ info.topic = "latest_prefect_release"
    /\ info.pc = "raised"

\* C3 as stated: whenever get_info("latest_prefect_version") succeeds, it
\* returns the text between the first and the second occurrence of the
\* delimiter in the body, from one invocation of the handler.
C3_ReturnsBetweenFirstAndSecond ==
    (ViaGetInfo /\ info.pc = "returned") =>
        /\ Cardinality(Occurrences(info.text)) >= 2
        /\ info.out = BetweenFirstAndSecond(info.text)
        /\ info.handler_runs = 1

\* C3 amended: whenever it succeeds, it returns the text after the first
\* occurrence of the delimiter up to the second occurrence or, when the body
\* holds only one, up to the end of the body, from one invocation of the handler.
C3_ReturnsAfterFirstUpToNext ==
    (ViaGetInfo /\ info.pc = "returned") =>
        /\ info.topic = "latest_prefect_version"
        /\ Occurrences(info.text) # {}
        /\ info.out = AfterFirstUpToNext(info.text)
        /\ info.handler_runs = 1

\* get_info returned a non-empty section of a body that has text before the
\* first delimiter and at least two delimiters.
C3_Witness ==
    /\ ViaGetInfo /\ info.pc = "returned"
    /\ Cardinality(Occurrences(info.text)) >= 2
    /\ FirstOcc(info.text) > 1
    /\ info.out # <<>>

\* The GET of the release notes has answered.
Answered_ReleaseNotes == info.got /\ info.pc \in {"returned", "raised"}

\* C4 as stated: a body with zero or exactly one occurrence of the delimiter
\* makes get_latest_release_notes fail with the index-out-of-range error; it
\* never returns text.
C4_FewerThanTwoFails ==
    (Answered_ReleaseNotes /\ Cardinality(Occurrences(info.text)) <= 1) =>
        info.pc = "raised" /\ info.raised.kind = "IndexError"

\* C4 amended: a body with no occurrence of the delimiter makes it fail with
\* the index-out-of-range error and return nothing; a body with exactly one
\* occurrence does not fail: everything after that occurrence is returned.
C4_NoDelimiterFails ==
    /\ (Answered_ReleaseNotes /\ Occurrences(info.text) = {}) =>
           /\ info.pc = "raised"
           /\ info.raised.kind = "IndexError"
           /\ info.out = <<>>
    /\ (Answered_ReleaseNotes /\ Cardinality(Occurrences(info.text)) = 1) =>
           /\ info.pc = "returned"
           /\ info.out = SubSeq(info.text, FirstOcc(info.text) + 4,
                                Len(info.text))

\* get_latest_release_notes, called on its own, failed on a body that has text
\* but no delimiter.
C4_Witness ==
    /\ info.entry = "get_latest_release_notes"
    /\ Answered_ReleaseNotes
    /\ Len(info.text) >= 4
    /\ Occurrences(info.text) = {}
    /\ info.pc = "raised"

\* C9: for a registered topic, an error raised by the handler or by awaiting
\* it leaves get_info as that same kind of error, never as InvalidTopic.
C9_HandlerErrorsSurfaceUnchanged ==
    (ViaGetInfo /\ info.pc = "raised" /\ info.topic \in DOMAIN tool_map) =>
        info.err = info.raised

----------------------------------------------------------------------------
(* Claims about get_prefect_code_example, checked under SpecExample *)

\* The entries of the fetched manifest in manifest order, read off the
\* manifest itself.
Entries == ItemStream(Get(ex.manifest, "categories", <<>>))

DescriptionOf(item) == Get(item, "description", PyNone)

PathOf(item) == Get(item, "relative_path", PyNone)

\* The example-file GET has been issued.
ExampleRequested == Len(ex.trace) >= 3

\* C5: the call returns only a link that is base_url joined with the
\* relative path of an entry of the manifest carrying the classifier's label;
\* when the classifier's label is no key of the flattened map (as with every
\* empty manifest) the call fails with KeyError and never requests a file.
C5_LinkFromManifestOrFail ==
    LET entries == Entries
        described == {DescriptionOf(entries[i]) : i \in 1..Len(entries)}
    IN  /\ ex.pc \in {"example", "returned"} =>
               \E i \in 1..Len(entries) :
                   /\ DescriptionOf(entries[i]) = ex.key
                   /\ ex.best_link = base_url \o "/" \o Str(PathOf(entries[i]))
        /\ (ex.answered /\ ex.key \notin described) =>
               /\ ex.pc = "raised"
               /\ ex.err.kind = "KeyError"
               /\ ~ExampleRequested
        /\ (ex.got /\ entries = <<>>) =>
               ex.pc \in {"classify", "raised"} /\ ~ExampleRequested

\* The classifier answered a label it was not given, for a manifest that has
\* entries, and the call failed.
C5_Witness ==
    /\ ex.answered /\ Len(Entries) >= 2
    /\ ex.key \in StrayLabels
    /\ ex.pc = "raised"

\* C6: a successful call has made, in this order, the manifest GET, the
\* classification and the example-file GET, and returns the line "LINK:", the
\* line of the URL base_url + "/" + the chosen description's relative path, a
\* blank line, the line "EXAMPLE:", then the file's content.
C6_OrderAndFormat ==
    ex.pc = "returned" =>
        \E i \in 1..Len(ex.example_items) : \E content \in Contents :
            LET url == base_url \o "/" \o Str(ex.example_items[i][2])
            IN  /\ ex.example_items[i][1] = ex.key
                /\ ex.trace = <<"GET " \o manifest_url, "classify", "GET " \o url>>
                /\ ex.out = "LINK:\n" \o url \o "\n" \o "\n" \o "EXAMPLE:\n"
                               \o content

\* Where description d first and last occurs among the descriptions ds.
FirstAt(ds, d) ==
    CHOOSE i \in 1..Len(ds) : ds[i] = d /\ \A j \in 1..(i - 1) : ds[j] # d

LastAt(ds, d) ==
    CHOOSE i \in 1..Len(ds) : ds[i] = d /\ \A j \in (i + 1)..Len(ds) : ds[j] # d

----------------------------------------------------------------------------
(* Claims about the search tools, checked under SpecSearch *)

Started == {c \in CallIds : calls[c].pc # "idle"}

\* The namespace each tool is to search.
ToolNamespace(fn) ==
    IF fn = "search_prefect_2x_docs" THEN "prefect-2" ELSE "prefect-3"

\* C2: a search tool hands the backend exactly its own query list with its own
\* namespace ("prefect-2" for search_prefect_2x_docs, "prefect-3" for
\* search_prefect_3x_docs) in one backend call, never a second; what it returns
\* is the backend's answer to that call, unmodified; a backend error leaves the
\* tool as that error after the one call.
C2_SearchDelegates ==
    \A c \in Started :
        LET r == calls[c]
            one == <<[queries |-> r.queries, namespace |-> ToolNamespace(r.fn)]>>
        IN  /\ Len(r.sent) <= 1
            /\ r.pc \in {"querying", "returned"} => r.sent = one
            /\ r.pc = "returned" =>
                   [queries |-> r.queries, namespace |-> ToolNamespace(r.fn),
                    out |-> r.out] \in backend
            /\ (r.pc = "raised" /\ r.sent # <<>>) =>
                   r.sent = one /\ r.err = "BackendError" /\ r.out = PyNone

\* A 3.x search of a two-query list has returned after loading the secret, and
\* another call has ended in the backend's error.
C2_Witness ==
    \E c, d \in CallIds :
        /\ calls[c].pc = "returned" /\ calls[c].fn = "search_prefect_3x_docs"
        /\ Len(calls[c].queries) = 2 /\ calls[c].loaded = 1
        /\ calls[d].pc = "raised" /\ calls[d].err = "BackendError"

\* C7 as stated: over any interleaving of search calls the secret is loaded at
\* most once in the process lifetime.
C7_LoadedAtMostOnce == loads <= 1

\* C7 amended: each search call loads the secret at most once, and exactly when
\* the slot was unset or empty at the moment the call tested it; the loads of the
\* process are the loads of those calls.
C7_LoadedOncePerUnsetTest ==
    /\ \A c \in CallIds :
           /\ calls[c].loaded <= 1
           /\ calls[c].loaded = 1 <=> (c \in Started /\ ~Truthy(calls[c].saw_key))
    /\ loads = Cardinality({c \in CallIds : calls[c].loaded = 1})
    /\ Truthy(api_key) => api_key = secret

\* Two calls tested the slot before either load completed: both loaded a
\* non-empty credential and both returned.
C7_Witness ==
    /\ loads = 2
    /\ Truthy(api_key)
    /\ \A c \in {1, 2} : calls[c].pc = "returned" /\ calls[c].after = {}

\* The pairs (first, second) of calls of the same tool with the same queries,
\* the second started after the first returned, both returned.
SequentialTwins ==
    {p \in CallIds \X CallIds :
        /\ p[1] \in calls[p[2]].after
        /\ calls[p[2]].pc = "returned"
        /\ calls[p[1]].fn = calls[p[2]].fn
        /\ calls[p[1]].queries = calls[p[2]].queries}

SameOutputOneLoad(p) ==
    /\ calls[p[1]].out = calls[p[2]].out
    /\ calls[p[1]].loaded + calls[p[2]].loaded <= 1

\* C8 as stated: two search calls with identical arguments, one after the other,
\* return the same output and load the secret at most once between them, for
\* every credential value the Secret Provider may return.
C8_TwiceSameOutputOneLoad == \A p \in SequentialTwins : SameOutputOneLoad(p)

\* C8 amended: the same, for every non-empty credential value.
C8_TwiceSameOutputOneLoadNonEmpty ==
    Truthy(secret) => \A p \in SequentialTwins : SameOutputOneLoad(p)

\* A call that loaded a non-empty credential returned, and the same call made
\* again afterwards returned without loading.
C8_Witness ==
    /\ Truthy(secret)
    /\ \E p \in SequentialTwins :
           calls[p[1]].loaded = 1 /\ calls[p[2]].loaded = 0

====
